---- MODULE Spec2Model ----
(***************************************************************************)
(* Model of the playback engine PlayerInternal                             *)
(* (src/playback/src/internal.rs): the select! loop of run(), its command  *)
(* handlers, the progress tick, the FFT forwarding branch, the playlist    *)
(* debounce timer and the cancellation token.                              *)
(*                                                                         *)
(* Option<T> is modelled as a sequence: None is << >>, Some(x) is <<x>>.   *)
(* Every handler is an operator from the engine record (the fields of      *)
(* PlayerInternal, the events it has sent and the position of the loop) to *)
(* the engine record after the handler.                                    *)
(*                                                                         *)
(* The observer variables are what a receiver of the event channel notes   *)
(* down about the stream of events; observing says which notes it takes    *)
(* and is fixed by the initial predicate of each specification.            *)
(***************************************************************************)
EXTENDS Integers, Sequences, FiniteSets, TLC

\* ------------------------------------------------------------------ bounds
\* Longest playlist explored.
MaxLen == 2
\* Largest sink position (in position units) explored.
MaxPos == 1
\* Milliseconds that pass in one step of the clock.
TimeStep == 30

\* ------------------------------------------------------- program constants
\* Duration::from_millis(60) of schedule_playlist_update.
DebounceDuration == 60

\* ------------------------------------------------------------------ Option
None == << >>
Some(x) == << x >>
IsSome(o) == o # << >>
Unwrap(o) == o[1]

Min(a, b) == IF a < b THEN a ELSE b
Max(a, b) == IF a > b THEN a ELSE b

\* ------------------------------------------------------------ input domains
\* The playlist items a caller adds (AddToPlaylist { id, path }).
Items == { [id |-> 10, path |-> "a.flac"], [id |-> 20, path |-> "b.flac"] }
\* usize indices a caller sends, in bounds and out of bounds.
Indices == 0..MaxLen
\* Seek targets, in position units.
Positions == 0..MaxPos
\* What File::open, Decoder::new and OutputStream::try_default do in load().
LoadOutcomes == {"ok", "open_err", "decode_err", "no_device"}
\* What Sink::try_seek does in seek().
SeekOutcomes == {"ok", "err"}

\* ------------------------------------------------------------------ events
EvStopped == [type |-> "Stopped"]
EvEndOfPlaylist == [type |-> "EndOfPlaylist"]
EvPlaying(id, index, path, position) ==
    [type |-> "Playing", id |-> id, index |-> index, path |-> path, position |-> position]
EvPaused(id, index, path, position) ==
    [type |-> "Paused", id |-> id, index |-> index, path |-> path, position |-> position]
EvEndOfTrack(id, index, path) ==
    [type |-> "EndOfTrack", id |-> id, index |-> index, path |-> path]
EvError(id, index, path, error) ==
    [type |-> "Error", id |-> id, index |-> index, path |-> path, error |-> error]
EvProgress(id, index, path, position) ==
    [type |-> "Progress", id |-> id, index |-> index, path |-> path, position |-> position]
EvPlaylistUpdated(ids) == [type |-> "PlaylistUpdated", ids |-> ids]
EvRealtimeFFT == [type |-> "RealtimeFFT"]

\* ------------------------------------------------------------------- state
VARIABLES
    playlist,             \* Vec<PlaylistItem>
    current_track_id,     \* Option<i32>
    current_track_index,  \* Option<usize>
    current_track_path,   \* Option<PathBuf>
    sink,                 \* Option<Sink>: [paused, pos, empty]
    stream,               \* _stream: Option<OutputStream>, TRUE when held
    state,                \* InternalPlaybackState
    debounce_timer,       \* Option<Instant>, kept as the milliseconds left
    cancelled,            \* cancellation_token has fired
    commands_closed,      \* every sender of the command channel is dropped
    events,               \* what the latest loop iteration sent on event_sender
    pc,                   \* "running", "in_play", "exited", "panicked"
    quiet,                \* history: ms since the last playlist mutation
    burst,                \* history: "none", "open", "notified"
    last,                 \* history: the branch or command the loop ran last
    observing,            \* which part of the event stream the observer records
    after_clear,          \* observer: what has happened since a ClearPlaylist
    stream_log,           \* observer: the events sent, Progress and FFT left out
    last_progress,        \* observer: the latest Progress event
    announced             \* observer: the (id, index) of the Playing events
                          \* sent since the sink was loaded

\* The collaborators of the engine: the search index, the analysis batcher
\* and the file descriptions.
VARIABLES
    search_db,            \* SearchDbConnection: the documents a reader sees
    latest_add,           \* caller: the name last added under each key
    search_calls,         \* caller: how many index calls it has made
    cores,                \* num_cpus::get()
    batch_size,           \* Option<usize>: what determine_batch_size returned
    media_files,          \* table media_files: the ids of the cataloged files
    media_analysis,       \* table media_analysis: the file_id of every row
    batcher,              \* the locals of analysis_audio_library and its output
    file,                 \* the file on disk: None when it cannot be opened
    file_description,     \* FileDescription: [file_hash]
    crc_calls             \* caller: the get_crc calls made and their results

\* What the receiver of the event channel has noted down.
observer == << observing, after_clear, stream_log, last_progress, announced >>

\* The state outside the engine.
collaborators == << search_db, latest_add, search_calls, cores, batch_size,
                    media_files, media_analysis, batcher,
                    file, file_description, crc_calls >>

vars == << playlist, current_track_id, current_track_index, current_track_path,
           sink, stream, state, debounce_timer, cancelled, commands_closed,
           events, pc, quiet, burst, last, observer, collaborators >>

\* The fields of PlayerInternal a handler reads and writes, with the events
\* the handler sends (none yet), the position of the loop, and whether the
\* handler has installed a new sink (not yet).
Self ==
    [playlist |-> playlist,
     current_track_id |-> current_track_id,
     current_track_index |-> current_track_index,
     current_track_path |-> current_track_path,
     sink |-> sink,
     stream |-> stream,
     state |-> state,
     debounce_timer |-> debounce_timer,
     events |-> << >>,
     pc |-> pc,
     loaded |-> FALSE]

\* event_sender.send(e)
Send(s, e) == [s EXCEPT !.events = Append(@, e)]
\* A panic unwinds out of run() and drops the PlayerInternal with all it
\* owns; what it had sent on the event channel stays sent.
Panic(s) ==
    [playlist |-> << >>,
     current_track_id |-> None,
     current_track_index |-> None,
     current_track_path |-> None,
     sink |-> None,
     stream |-> FALSE,
     state |-> "Stopped",
     debounce_timer |-> None,
     events |-> s.events,
     pc |-> "panicked",
     loaded |-> s.loaded]
\* Sink::try_new followed by append: playing, at position 0, queue not empty.
NewSink == [paused |-> FALSE, pos |-> 0, empty |-> FALSE]


\* Every unwrap() of the cached track in play, pause, seek and send_progress.
HasTrack(s) ==
    /\ IsSome(s.current_track_id)
    /\ IsSome(s.current_track_index)
    /\ IsSome(s.current_track_path)

\* Vec::remove(index) and Vec::insert(index, item), indices from 0.
RemoveAt(seq, index) ==
    [k \in 1..(Len(seq) - 1) |-> IF k <= index THEN seq[k] ELSE seq[k + 1]]
InsertAt(seq, index, item) ==
    [k \in 1..(Len(seq) + 1) |->
        IF k <= index THEN seq[k]
        ELSE IF k = index + 1 THEN item
        ELSE seq[k - 1]]

\* ---------------------------------------------------------------- handlers
\* fn load(&mut self, index: Option<usize>), called with Some(index).
load(s, index, outcome) ==
    IF index >= Len(s.playlist)
    THEN Panic(s)                              \* &self.playlist[index]
    ELSE
        LET item == s.playlist[index + 1]
            failed(error) ==
                IF IsSome(s.current_track_id)
                THEN [Send(s, EvError(Unwrap(s.current_track_id), index, item.path, error))
                        EXCEPT !.state = "Stopped"]
                ELSE Panic(s)                  \* self.current_track_id.unwrap()
        IN  CASE outcome = "ok" ->
                    LET s1 == [s EXCEPT !.sink = Some(NewSink),
                                        !.stream = TRUE,
                                        !.current_track_index = Some(index),
                                        !.current_track_id = Some(item.id),
                                        !.current_track_path = Some(item.path),
                                        !.loaded = TRUE]
                    IN  [Send(s1, EvPlaying(item.id, index, item.path, 0))
                            EXCEPT !.state = "Playing"]
              [] outcome = "no_device" -> Panic(s)  \* OutputStream::try_default().unwrap()
              [] outcome = "decode_err" -> failed("Failed to decode audio")
              [] outcome = "open_err" -> failed("Failed to open file")

\* fn play(&mut self). Without a sink it calls load(Some(0)) and then itself:
\* pc = "in_play" is the handler about to make that recursive call.
play(s, outcome) ==
    LET resume(t) ==
            IF HasTrack(t)
            THEN [Send([t EXCEPT !.sink = Some([Unwrap(@) EXCEPT !.paused = FALSE])],
                       EvPlaying(Unwrap(t.current_track_id),
                                 Unwrap(t.current_track_index),
                                 Unwrap(t.current_track_path), 0))
                    EXCEPT !.state = "Playing", !.pc = "running"]
            ELSE Panic(t)
    IN  IF IsSome(s.sink)
        THEN resume(s)
        ELSE LET s1 == load(s, 0, outcome)
             IN  IF s1.pc = "panicked" THEN s1
                 ELSE IF IsSome(s1.sink) THEN resume(s1)
                 ELSE [s1 EXCEPT !.pc = "in_play"]

\* pause() that reports Paused whether or not a sink is held.
pause_any(s) ==
    IF HasTrack(s)
    THEN [Send([s EXCEPT !.sink = IF IsSome(@)
                                  THEN Some([Unwrap(@) EXCEPT !.paused = TRUE])
                                  ELSE None],
               EvPaused(Unwrap(s.current_track_id),
                        Unwrap(s.current_track_index),
                        Unwrap(s.current_track_path),
                        IF IsSome(s.sink) THEN Unwrap(s.sink).pos ELSE 0))
            EXCEPT !.state = "Paused"]
    ELSE s

\* pause() that also rewinds the sink to its start.
pause_rewinds(s) ==
    IF IsSome(s.sink)
    THEN IF HasTrack(s)
         THEN [Send([s EXCEPT !.sink = Some([Unwrap(@) EXCEPT !.paused = TRUE,
                                                             !.pos = 0])],
                    EvPaused(Unwrap(s.current_track_id),
                             Unwrap(s.current_track_index),
                             Unwrap(s.current_track_path),
                             Unwrap(s.sink).pos))
                 EXCEPT !.state = "Paused"]
         ELSE Panic(s)
    ELSE s

\* fn pause(&mut self)
pause(s) ==
    IF IsSome(s.sink)
    THEN IF HasTrack(s)
         THEN [Send([s EXCEPT !.sink = Some([Unwrap(@) EXCEPT !.paused = TRUE])],
                    EvPaused(Unwrap(s.current_track_id),
                             Unwrap(s.current_track_index),
                             Unwrap(s.current_track_path),
                             Unwrap(s.sink).pos))
                 EXCEPT !.state = "Paused"]
         ELSE Panic(s)
    ELSE s

\* stop() that forgets self.state = Stopped.
stop_keeps_state(s) ==
    IF IsSome(s.sink)
    THEN Send([s EXCEPT !.sink = None], EvStopped)
    ELSE s

\* fn stop(&mut self)
stop(s) ==
    IF IsSome(s.sink)
    THEN [Send([s EXCEPT !.sink = None], EvStopped) EXCEPT !.state = "Stopped"]
    ELSE s

\* fn next(&mut self)
next(s, outcome) ==
    IF IsSome(s.current_track_index)
    THEN LET index == Unwrap(s.current_track_index)
         IN  IF index + 1 < Len(s.playlist)
             THEN load([s EXCEPT !.current_track_index = Some(index + 1)],
                       index + 1, outcome)
             ELSE [Send(s, EvEndOfPlaylist) EXCEPT !.state = "Stopped"]
    ELSE s

\* fn previous(&mut self)
previous(s, outcome) ==
    IF IsSome(s.current_track_index)
    THEN LET index == Unwrap(s.current_track_index)
         IN  IF index > 0
             THEN load([s EXCEPT !.current_track_index = Some(index - 1)],
                       index - 1, outcome)
             ELSE s
    ELSE s

\* fn switch(&mut self, index: usize)
switch(s, index, outcome) ==
    IF index > 0 \/ index < Len(s.playlist)
    THEN load([s EXCEPT !.current_track_index = Some(index)], index, outcome)
    ELSE s

\* fn seek(&mut self, position: f64)
seek(s, position, outcome) ==
    IF IsSome(s.sink)
    THEN IF outcome = "ok"
         THEN IF HasTrack(s)
              THEN [Send([s EXCEPT !.sink = Some([Unwrap(@) EXCEPT !.pos = position])],
                         EvPlaying(Unwrap(s.current_track_id),
                                   Unwrap(s.current_track_index),
                                   Unwrap(s.current_track_path),
                                   position))
                      EXCEPT !.state = "Playing"]
              ELSE Panic(s)
         ELSE s
    ELSE s

\* fn schedule_playlist_update(&mut self): Instant::now() + 60 ms.
schedule_playlist_update(s) ==
    [s EXCEPT !.debounce_timer = Some(DebounceDuration)]

\* send_playlist_updated() that collects the ids back to front.
send_playlist_updated_reversed(s) ==
    Send(s, EvPlaylistUpdated(
        [k \in 1..Len(s.playlist) |-> s.playlist[Len(s.playlist) + 1 - k].id]))

\* fn send_playlist_updated(&self)
send_playlist_updated(s) ==
    Send(s, EvPlaylistUpdated([k \in 1..Len(s.playlist) |-> s.playlist[k].id]))

\* add_to_playlist() that puts the item in front.
add_to_playlist_front(s, id, path) ==
    schedule_playlist_update(
        [s EXCEPT !.playlist = << [id |-> id, path |-> path] >> \o @])

\* async fn add_to_playlist(&mut self, id: i32, path: PathBuf)
add_to_playlist(s, id, path) ==
    schedule_playlist_update(
        [s EXCEPT !.playlist = Append(@, [id |-> id, path |-> path])])

\* remove_from_playlist() that schedules the update for any index.
remove_from_playlist_reschedules(s, index) ==
    IF index < Len(s.playlist)
    THEN schedule_playlist_update([s EXCEPT !.playlist = RemoveAt(@, index)])
    ELSE schedule_playlist_update(s)

\* async fn remove_from_playlist(&mut self, index: usize)
remove_from_playlist(s, index) ==
    IF index < Len(s.playlist)
    THEN schedule_playlist_update([s EXCEPT !.playlist = RemoveAt(@, index)])
    ELSE s

\* clear_playlist() that keeps the sink and the output stream.
clear_playlist_keeps_sink(s) ==
    LET s1 == [s EXCEPT !.playlist = << >>,
                        !.current_track_index = None]
    IN  [schedule_playlist_update(Send(s1, EvStopped)) EXCEPT !.state = "Stopped"]

\* clear_playlist() that does not send Stopped.
clear_playlist_silent(s) ==
    LET s1 == [s EXCEPT !.playlist = << >>,
                        !.current_track_index = None,
                        !.sink = None,
                        !.stream = FALSE]
    IN  [schedule_playlist_update(s1) EXCEPT !.state = "Stopped"]

\* async fn clear_playlist(&mut self)
clear_playlist(s) ==
    LET s1 == [s EXCEPT !.playlist = << >>,
                        !.current_track_index = None,
                        !.sink = None,
                        !.stream = FALSE]
    IN  [schedule_playlist_update(Send(s1, EvStopped)) EXCEPT !.state = "Stopped"]

\* send_progress() that goes on to the next track without sending EndOfTrack.
send_progress_silent_end(s, outcome) ==
    IF IsSome(s.sink)
    THEN IF ~HasTrack(s) THEN Panic(s)
         ELSE IF Unwrap(s.sink).empty
         THEN IF s.state # "Stopped" THEN next(s, outcome) ELSE s
         ELSE Send(s, EvProgress(Unwrap(s.current_track_id),
                                 Unwrap(s.current_track_index),
                                 Unwrap(s.current_track_path),
                                 Unwrap(s.sink).pos))
    ELSE s

\* fn send_progress(&mut self)
send_progress(s, outcome) ==
    IF IsSome(s.sink)
    THEN IF ~HasTrack(s) THEN Panic(s)
         ELSE IF Unwrap(s.sink).empty
         THEN LET s1 == Send(s, EvEndOfTrack(Unwrap(s.current_track_id),
                                             Unwrap(s.current_track_index),
                                             Unwrap(s.current_track_path)))
              IN  IF s1.state # "Stopped" THEN next(s1, outcome) ELSE s1
         ELSE Send(s, EvProgress(Unwrap(s.current_track_id),
                                 Unwrap(s.current_track_index),
                                 Unwrap(s.current_track_path),
                                 Unwrap(s.sink).pos))
    ELSE s

\* The cursor adjustment with new_index > current_index for >=.
adjust_current_index_strict(current_index, old_index, new_index) ==
    IF old_index = current_index THEN new_index
    ELSE IF old_index < current_index /\ new_index > current_index
    THEN current_index - 1
    ELSE IF old_index > current_index /\ new_index <= current_index
    THEN current_index + 1
    ELSE current_index

\* The cursor adjustment of move_playlist_item.
adjust_current_index(current_index, old_index, new_index) ==
    IF old_index = current_index THEN new_index
    ELSE IF old_index < current_index /\ new_index >= current_index
    THEN current_index - 1
    ELSE IF old_index > current_index /\ new_index <= current_index
    THEN current_index + 1
    ELSE current_index

\* move_playlist_item() that schedules the update also when old = new.
move_playlist_item_same_schedules(s, old_index, new_index) ==
    IF old_index >= Len(s.playlist) \/ new_index >= Len(s.playlist) THEN s
    ELSE IF old_index = new_index THEN schedule_playlist_update(s)
    ELSE
        LET item == s.playlist[old_index + 1]
            moved == InsertAt(RemoveAt(s.playlist, old_index), new_index, item)
            s1 == [s EXCEPT !.playlist = moved]
            s2 == IF IsSome(s.current_track_index)
                  THEN [s1 EXCEPT !.current_track_index =
                            Some(adjust_current_index(Unwrap(s.current_track_index),
                                                      old_index, new_index))]
                  ELSE s1
        IN  schedule_playlist_update(s2)

\* async fn move_playlist_item(&mut self, old_index: usize, new_index: usize)
move_playlist_item(s, old_index, new_index) ==
    IF old_index >= Len(s.playlist) \/ new_index >= Len(s.playlist) THEN s
    ELSE IF old_index = new_index THEN s
    ELSE
        LET item == s.playlist[old_index + 1]
            moved == InsertAt(RemoveAt(s.playlist, old_index), new_index, item)
            s1 == [s EXCEPT !.playlist = moved]
            s2 == IF IsSome(s.current_track_index)
                  THEN [s1 EXCEPT !.current_track_index =
                            Some(adjust_current_index(Unwrap(s.current_track_index),
                                                      old_index, new_index))]
                  ELSE s1
        IN  schedule_playlist_update(s2)


\* --------------------------------------------------------- the search index
\* (src/database/src/actions/search.rs)
\* Largest id of a collection explored.
MaxTermId == 2
\* Most calls the caller of the index makes.
MaxSearchCalls == 3

CollectionType == {"Track", "Artist", "Directory", "Album", "Playlist"}
TermIds == 1..MaxTermId
TermNames == {"Café", "Rune"}
\* The composite keys (kind, id) of the callers.
TermKeys == CollectionType \X TermIds

\* impl From<CollectionType> for i64
CollectionTypeToI64(type) ==
    CASE type = "Track" -> 0
      [] type = "Artist" -> 1
      [] type = "Album" -> 2
      [] type = "Directory" -> 3
      [] type = "Playlist" -> 4

\* schema.get_field(name): the handle of a field is its place in the schema.
schema_get_field(name) ==
    CASE name = "name" -> 0
      [] name = "latinization" -> 1
      [] name = "type" -> 2
      [] name = "id" -> 3
      [] name = "tid" -> 4

\* {:?} of a CollectionType, of an i32 and of a tantivy Field.
DebugCollectionType(type) == type
DebugI32(id) == ToString(id)
DebugField(field) == "Field(" \o ToString(field) \o ")"

\* deunicode(name): the ASCII rendering of a name.
deunicode(name) == IF name = "Café" THEN "Cafe" ELSE name

\* IndexWriter::delete_term on the tid field: every document added before
\* the call whose tid is the term is gone after the commit.
delete_term(docs, tid) == SelectSeq(docs, LAMBDA d : d.tid # tid)

\* remove_term: the term deleted is format!("{:?}-{:?}", r#type, id).
remove_term_tid(type, id) == DebugCollectionType(type) \o "-" \o DebugI32(id)
remove_term(docs, type, id) == delete_term(docs, remove_term_tid(type, id))

\* add_term: term_type and term_id are the handles of the fields "type" and
\* "id", and the tid is format!("{:?}-{:?}", term_type, term_id).
add_term_tid(type, id) ==
    LET term_id == schema_get_field("id")
        term_type == schema_get_field("type")
    IN  DebugField(term_type) \o "-" \o DebugField(term_id)
add_term(docs, type, id, name) ==
    LET tid == add_term_tid(type, id)
    IN  Append(delete_term(docs, tid),
               [name |-> name,
                latinization |-> deunicode(name),
                type |-> CollectionTypeToI64(type),
                tid |-> tid,
                id |-> id])

\* search_for, for a query that is one name: per kind, the ids of the
\* documents whose name or latinization is the query.
search_for(docs, query_str) ==
    [type \in CollectionType |->
        { docs[k].id : k \in { j \in 1..Len(docs) :
                                 /\ docs[j].type = CollectionTypeToI64(type)
                                 /\ \/ docs[j].name = query_str
                                    \/ docs[j].latinization = query_str } }]

\* A new index, and a caller that has called nothing.
SearchIdle ==
    /\ search_db = << >>
    /\ latest_add = [key \in TermKeys |-> None]
    /\ search_calls = 0

\* ------------------------------------------------- the analysis batch size
\* (src/native/hub/src/library_manage.rs)
\* Most cores of a machine explored.
MaxCores == 1600

min_batch_size == 1
max_batch_size == 1000

\* determine_batch_size, num_cores being num_cpus::get().
determine_batch_size(num_cores) ==
    LET batch_size_ == (num_cores \div 3) * 2
    IN  Min(Max(batch_size_, min_batch_size), max_batch_size)

\* A machine of one core that has not been asked for a batch size.
BatchSizeIdle ==
    /\ cores = 1
    /\ batch_size = None

\* -------------------------------------------------- the analysis batcher
\* (src/database/src/actions/analysis.rs)
\* Largest id of a file explored.
MaxFileId == 4
\* Most cores of the machines that run the batcher.
MaxRunCores == 6

FileIds == 1..MaxFileId

\* The elements of a set of ids in ascending order (ORDER BY id ASC).
RECURSIVE Ascending(_)
Ascending(ids) ==
    IF ids = {} THEN << >>
    ELSE LET least == CHOOSE x \in ids : \A y \in ids : x <= y
         IN  << least >> \o Ascending(ids \ {least})

\* The elements of a sequence.
Range(seq) == { seq[k] : k \in 1..Len(seq) }

\* A cursor whose query does not filter out the analysed ids.
cursor_first_unfiltered(files, existed_tasks, after, n) ==
    LET left == Ascending({ id \in files : after = None \/ id > Unwrap(after) })
    IN  SubSeq(left, 1, Min(n, Len(left)))

\* cursor.first(n).all(): the first n cataloged files, by ascending id, whose
\* id is not in existed_tasks and lies after the cursor's position.
cursor_first(files, existed_tasks, after, n) ==
    LET left == Ascending({ id \in files :
                              /\ id \notin Range(existed_tasks)
                              /\ after = None \/ id > Unwrap(after) })
    IN  SubSeq(left, 1, Min(n, Len(left)))

\* What can go wrong with the database: nothing, the fetch of a batch, the
\* transaction of a batch; and before the loop: the count of the catalog
\* (an Err) and the query of the analysed ids (an unwrap).
BatchOutcomes == {"ok", "fetch_err", "txn_err"}
StartOutcomes == {"ok", "count_err", "query_err"}

\* The locals of a run of analysis_audio_library that has not started, with
\* what the run hands out: the progress callbacks, the batches it analysed
\* and the value it returned.
BatcherNew ==
    [pc |-> "new", total_tasks |-> 0, existed_tasks |-> << >>,
     after |-> None, total_processed |-> 0, cancelled |-> FALSE,
     callbacks |-> << >>, batches |-> << >>, returned |-> None]

\* An empty catalog and no run.
AnalysisIdle ==
    /\ media_files = {}
    /\ media_analysis = << >>
    /\ batcher = BatcherNew

\* ------------------------------------------------------ the file description
\* (src/metadata/src/describe.rs)
\* Most chunks of CHUNK_SIZE bytes in a file explored.
MaxChunks == 2
\* Most calls of get_crc on one description.
MaxCrcCalls == 3

\* The chunks a file is read in, each named by a number, and the bodies of
\* the files: up to MaxChunks chunks.
Chunks == {10, 11}
FileBodies == UNION { [1..n -> Chunks] : n \in 0..MaxChunks }
\* What can go wrong with the file system during get_crc.
CrcOutcomes == {"ok", "open_err", "read_err"}

\* media_crc32(&buffer, crc, 0, bytes_read): the checksum continued over
\* one more chunk.
media_crc32(chunk, crc) == crc * 16 + chunk

\* The loop of get_crc over the chunks of a file, from crc = 0.
RECURSIVE crc_of(_, _)
crc_of(body, crc) ==
    IF body = << >> THEN crc
    ELSE crc_of(Tail(body), media_crc32(Head(body), crc))

\* One lowercase hexadecimal digit.
HexDigit(d) ==
    CASE d = 0 -> "0" [] d = 1 -> "1" [] d = 2 -> "2" [] d = 3 -> "3"
      [] d = 4 -> "4" [] d = 5 -> "5" [] d = 6 -> "6" [] d = 7 -> "7"
      [] d = 8 -> "8" [] d = 9 -> "9" [] d = 10 -> "a" [] d = 11 -> "b"
      [] d = 12 -> "c" [] d = 13 -> "d" [] d = 14 -> "e" [] d = 15 -> "f"

\* format!("{:08x}", crc): lowercase hexadecimal, padded with zeros to at
\* least `width` digits.
RECURSIVE FormatHex(_, _)
FormatHex(n, width) ==
    IF n < 16 /\ width <= 1 THEN HexDigit(n)
    ELSE FormatHex(n \div 16, width - 1) \o HexDigit(n % 16)

\* A get_crc that reads the file whether or not the hash is there.
get_crc_always_reads(self, on_disk, outcome) ==
    IF on_disk = None \/ outcome # "ok"
    THEN [self |-> self, result |-> None, opened |-> TRUE]
    ELSE LET result == FormatHex(crc_of(Unwrap(on_disk), 0), 8)
         IN  [self |-> [self EXCEPT !.file_hash = Some(result)],
              result |-> Some(result), opened |-> TRUE]

\* FileDescription::get_crc on the file as it is on disk: the description
\* afterwards, the result (None for an Err) and whether File::open was
\* called.
get_crc(self, on_disk, outcome) ==
    IF self.file_hash = None
    THEN IF on_disk = None \/ outcome = "open_err"
         THEN [self |-> self, result |-> None, opened |-> TRUE]
         ELSE IF outcome = "read_err"
         THEN [self |-> self, result |-> None, opened |-> TRUE]
         ELSE LET result == FormatHex(crc_of(Unwrap(on_disk), 0), 8)
              IN  [self |-> [self EXCEPT !.file_hash = Some(result)],
                   result |-> Some(result), opened |-> TRUE]
    ELSE [self |-> self, result |-> Some(Unwrap(self.file_hash)),
          opened |-> FALSE]

\* A description of a file that is not there, get_crc not called yet.
CrcIdle ==
    /\ file = None
    /\ file_description = [file_hash |-> None]
    /\ crc_calls = << >>

\* No collaborator has done anything.
CollaboratorsIdle == SearchIdle /\ BatchSizeIdle /\ AnalysisIdle /\ CrcIdle

\* ------------------------------------------------------------- the loop
EngineInit ==
    /\ playlist = << >>
    /\ current_track_id = None
    /\ current_track_index = None
    /\ current_track_path = None
    /\ sink = None
    /\ stream = FALSE
    /\ state = "Stopped"
    /\ debounce_timer = None
    /\ cancelled = FALSE
    /\ commands_closed = FALSE
    /\ events = << >>
    /\ pc = "running"
    /\ quiet = DebounceDuration
    /\ burst = "none"
    /\ last = "new"

\* The observer has noted nothing down.
NothingObserved ==
    /\ after_clear = None
    /\ stream_log = << >>
    /\ last_progress = None
    /\ announced = {}

Init ==
    /\ EngineInit /\ observing = "nothing" /\ NothingObserved
    /\ CollaboratorsIdle

\* The commands of PlayerCommand, as the loop names them in last.
CommandSteps ==
    {"Load", "Play", "Pause", "Stop", "Next", "Previous", "Switch", "Seek",
     "AddToPlaylist", "RemoveFromPlaylist", "ClearPlaylist", "MovePlayListItem"}

\* The events of one iteration that are of one of the given types.
EventsOfType(sent, types) ==
    SelectSeq(sent, LAMBDA e : e.type \in types)

\* The observer after an iteration that ran step and left r. A ClearPlaylist
\* starts a watch; the watch notes whether an event has been sent since,
\* whether a command has been handled since, and whether the debounce branch
\* has just sent its PlaylistUpdated. It ends with the iteration after that
\* PlaylistUpdated, or when both an event and a command have come.
ObserveClear(w, r, step) ==
    IF step = "ClearPlaylist"
    THEN Some([events |-> FALSE, commands |-> FALSE, updated |-> FALSE])
    ELSE IF ~IsSome(w) THEN None
    ELSE IF Unwrap(w).updated THEN None
    ELSE IF step = "Debounce" THEN Some([Unwrap(w) EXCEPT !.updated = TRUE])
    ELSE LET e == Unwrap(w).events \/ r.events # << >>
             c == Unwrap(w).commands \/ step \in CommandSteps
         IN  IF e /\ c THEN None
             ELSE Some([events |-> e, commands |-> c, updated |-> FALSE])

\* The event stream with Progress and RealtimeFFT left out.
ObserveStream(log, r) ==
    log \o EventsOfType(r.events,
                        {"Stopped", "Playing", "Paused", "EndOfPlaylist",
                         "EndOfTrack", "Error", "PlaylistUpdated"})

\* The latest Progress event, kept for as long as the cursor stays on the
\* (id, index) it carried. A Seek that repositioned the sink forgets it; a
\* load that installed a new sink marks it as from before the reload.
ObserveProgress(seen, r, step) ==
    LET progress == EventsOfType(r.events, {"Progress"})
    IN  IF progress # << >>
        THEN Some([id |-> progress[1].id, index |-> progress[1].index,
                   position |-> progress[1].position, reloaded |-> FALSE])
        ELSE IF ~IsSome(seen) THEN None
        ELSE IF step = "Seek" /\ r.events # << >> THEN None
        ELSE IF \/ r.current_track_id # Some(Unwrap(seen).id)
                \/ r.current_track_index # Some(Unwrap(seen).index)
        THEN None
        ELSE IF r.loaded
        THEN Some([Unwrap(seen) EXCEPT !.reloaded = TRUE])
        ELSE seen

\* The (id, index) of the Playing events sent since the sink in use was
\* loaded; none when no sink is held.
ObservePlaying(pairs, r) ==
    IF ~IsSome(r.sink) THEN {}
    ELSE (IF r.loaded THEN {} ELSE pairs) \cup
         { [id |-> r.events[k].id, index |-> r.events[k].index] :
             k \in {j \in DOMAIN r.events : r.events[j].type = "Playing"} }

\* The engine exists: run() is in its loop or inside a handler.
Alive == pc \in {"running", "in_play"}

\* The engine after one branch of select!: the fields of r, and the history.
\* mutation: the step is a playlist mutation; notified: it sent PlaylistUpdated.
Commit(handled, step, mutation, notified) ==
    \E r \in {handled} :
        /\ playlist' = r.playlist
        /\ current_track_id' = r.current_track_id
        /\ current_track_index' = r.current_track_index
        /\ current_track_path' = r.current_track_path
        /\ sink' = r.sink
        /\ stream' = r.stream
        /\ state' = r.state
        /\ debounce_timer' = r.debounce_timer
        /\ events' = r.events
        /\ pc' = r.pc
        /\ quiet' = IF mutation THEN 0 ELSE quiet
        /\ burst' = IF mutation THEN "open" ELSE IF notified THEN "notified" ELSE burst
        /\ last' = step
        /\ after_clear' = IF observing = "clear"
                          THEN ObserveClear(after_clear, r, step) ELSE after_clear
        /\ stream_log' = IF observing = "stream"
                         THEN ObserveStream(stream_log, r) ELSE stream_log
        /\ last_progress' = IF observing = "progress"
                            THEN ObserveProgress(last_progress, r, step)
                            ELSE last_progress
        /\ announced' = IF observing = "playing"
                        THEN ObservePlaying(announced, r) ELSE announced
        /\ UNCHANGED << cancelled, commands_closed, observing, collaborators >>

\* Some(cmd) = self.commands.recv() with the token not cancelled: the match.
CommandReady == pc = "running" /\ ~commands_closed /\ ~cancelled

Load(index) ==
    /\ CommandReady
    /\ \E r \in { load(Self, index, outcome) : outcome \in LoadOutcomes } :
          Commit(r, "Load", FALSE, FALSE)

Play ==
    /\ CommandReady
    /\ \E r \in { play(Self, outcome) : outcome \in LoadOutcomes } :
          Commit(r, "Play", FALSE, FALSE)

\* The recursive self.play() of a play() whose load(Some(0)) failed.
PlayRecursion ==
    /\ pc = "in_play"
    /\ \E r \in { play(Self, outcome) : outcome \in LoadOutcomes } :
          Commit(r, "Play", FALSE, FALSE)

\* The recursion of play() runs out of stack.
StackOverflow ==
    /\ pc = "in_play"
    /\ Commit(Panic(Self), "Play", FALSE, FALSE)

Pause ==
    /\ CommandReady
    /\ Commit(pause(Self), "Pause", FALSE, FALSE)

Stop ==
    /\ CommandReady
    /\ Commit(stop(Self), "Stop", FALSE, FALSE)

NextTrack ==
    /\ CommandReady
    /\ \E r \in { next(Self, outcome) : outcome \in LoadOutcomes } :
          Commit(r, "Next", FALSE, FALSE)

Previous ==
    /\ CommandReady
    /\ \E r \in { previous(Self, outcome) : outcome \in LoadOutcomes } :
          Commit(r, "Previous", FALSE, FALSE)

Switch(index) ==
    /\ CommandReady
    /\ \E r \in { switch(Self, index, outcome) : outcome \in LoadOutcomes } :
          Commit(r, "Switch", FALSE, FALSE)

Seek(position) ==
    /\ CommandReady
    /\ \E r \in { seek(Self, position, outcome) : outcome \in SeekOutcomes } :
          Commit(r, "Seek", FALSE, FALSE)

AddToPlaylist(item) ==
    /\ CommandReady
    /\ Len(playlist) < MaxLen
    /\ Commit(add_to_playlist(Self, item.id, item.path),
              "AddToPlaylist", TRUE, FALSE)

RemoveFromPlaylist(index) ==
    /\ CommandReady
    /\ Commit(remove_from_playlist(Self, index),
              "RemoveFromPlaylist",
              index < Len(playlist), FALSE)

ClearPlaylist ==
    /\ CommandReady
    /\ Commit(clear_playlist(Self), "ClearPlaylist", TRUE, FALSE)

MovePlayListItem(old_index, new_index) ==
    /\ CommandReady
    /\ Commit(move_playlist_item(Self, old_index, new_index),
              "MovePlayListItem",
              old_index < Len(playlist) /\ new_index < Len(playlist)
                  /\ old_index # new_index,
              FALSE)

\* Some(cmd) = self.commands.recv() with the token cancelled: stop and break.
CommandCancelled ==
    /\ pc = "running" /\ ~commands_closed /\ cancelled
    /\ Commit([stop(Self) EXCEPT !.pc = "exited"], "CommandCancelled",
              FALSE, FALSE)

\* The FFT forwarding without the loop around it: it goes on after run()
\* has returned.
FftBranch_after_exit ==
    /\ IsSome(current_track_id)
    /\ Commit(Send(Self, EvRealtimeFFT), "Fft", FALSE, FALSE)

\* Ok(fft_data) = fft_receiver.recv()
FftBranch ==
    /\ pc = "running"
    /\ IsSome(current_track_id)
    /\ Commit(Send(Self, EvRealtimeFFT), "Fft", FALSE, FALSE)

\* _ = progress_interval.tick()
TickBranch ==
    /\ pc = "running"
    /\ \E r \in { IF state # "Stopped" THEN send_progress(Self, outcome) ELSE Self : outcome \in LoadOutcomes } :
          Commit(r, "Tick", FALSE, FALSE)

\* sleep_until(timer), if self.debounce_timer.is_some()
DebounceBranch ==
    /\ pc = "running"
    /\ IsSome(debounce_timer)
    /\ Unwrap(debounce_timer) = 0
    /\ Commit(send_playlist_updated([Self EXCEPT !.debounce_timer = None]),
              "Debounce", FALSE, TRUE)

\* _ = self.cancellation_token.cancelled()
CancelBranch ==
    /\ pc = "running"
    /\ cancelled
    /\ Commit([stop(Self) EXCEPT !.pc = "exited"], "Cancelled", FALSE, FALSE)

\* ------------------------------------------------------------ environment
\* The owner of the token cancels it.
Cancel ==
    /\ Alive
    /\ ~cancelled
    /\ cancelled' = TRUE
    /\ UNCHANGED << playlist, current_track_id, current_track_index, current_track_path,
                    sink, stream, state, debounce_timer, commands_closed,
                    events, pc, quiet, burst, last, observer, collaborators >>

\* The last sender of the command channel is dropped.
CloseCommands ==
    /\ Alive
    /\ ~commands_closed
    /\ commands_closed' = TRUE
    /\ UNCHANGED << playlist, current_track_id, current_track_index, current_track_path,
                    sink, stream, state, debounce_timer, cancelled,
                    events, pc, quiet, burst, last, observer, collaborators >>

\* TimeStep milliseconds pass.
Advance ==
    /\ Alive
    /\ debounce_timer' = IF IsSome(debounce_timer)
                         THEN Some(Max(0, Unwrap(debounce_timer) - TimeStep))
                         ELSE None
    /\ quiet' = IF burst = "open" THEN Min(DebounceDuration, quiet + TimeStep) ELSE quiet
    /\ UNCHANGED << playlist, current_track_id, current_track_index, current_track_path,
                    sink, stream, state, cancelled, commands_closed,
                    events, pc, burst, last, observer, collaborators >>

\* The audio thread plays the sink's source: the position moves on, or the
\* source ends and the queue is empty.
Playback ==
    /\ Alive
    /\ IsSome(sink)
    /\ ~Unwrap(sink).paused
    /\ ~Unwrap(sink).empty
    /\ \/ /\ Unwrap(sink).pos < MaxPos
          /\ sink' = Some([Unwrap(sink) EXCEPT !.pos = @ + 1])
       \/ sink' = Some([Unwrap(sink) EXCEPT !.empty = TRUE])
    /\ UNCHANGED << playlist, current_track_id, current_track_index, current_track_path,
                    stream, state, debounce_timer, cancelled, commands_closed,
                    events, pc, quiet, burst, last, observer, collaborators >>

Next ==
    \/ \E index \in Indices : Load(index)
    \/ Play
    \/ PlayRecursion
    \/ StackOverflow
    \/ Pause
    \/ Stop
    \/ NextTrack
    \/ Previous
    \/ \E index \in Indices : Switch(index)
    \/ \E position \in Positions : Seek(position)
    \/ \E item \in Items : AddToPlaylist(item)
    \/ \E index \in Indices : RemoveFromPlaylist(index)
    \/ ClearPlaylist
    \/ \E old_index \in Indices, new_index \in Indices :
          MovePlayListItem(old_index, new_index)
    \/ CommandCancelled
    \/ FftBranch
    \/ TickBranch
    \/ DebounceBranch
    \/ CancelBranch
    \/ Cancel
    \/ Advance
    \/ Playback

\* The engine while its caller keeps the command sender. Closing the channel
\* changes commands_closed alone and only disables the command branch, so
\* every behaviour with a closed channel is, on the other variables, a
\* behaviour of Spec.
Spec == Init /\ [][Next]_vars

\* The engine with a caller that may also drop the command sender.
ShutdownNext == Next \/ CloseCommands

\* select! polls its branches in random order: a branch that stays ready is
\* taken. Commands and FFT snapshots arrive as the environment pleases.
Fairness ==
    /\ WF_vars(TickBranch)
    /\ WF_vars(DebounceBranch)
    /\ WF_vars(CancelBranch)
    /\ WF_vars(PlayRecursion)

FairSpec == Init /\ [][ShutdownNext]_vars /\ Fairness

\* The engine with an observer on its event channel that watches what
\* follows a ClearPlaylist.
ClearInit ==
    /\ EngineInit /\ observing = "clear" /\ NothingObserved
    /\ CollaboratorsIdle
ClearSpec == ClearInit /\ [][Next]_vars

\* The engine with an observer that keeps the latest Progress event.
ProgressInit ==
    /\ EngineInit /\ observing = "progress" /\ NothingObserved
    /\ CollaboratorsIdle
ProgressSpec == ProgressInit /\ [][Next]_vars

\* The engine with an observer that keeps which (id, index) the Playing
\* events of the loaded sink carried.
PlayingInit ==
    /\ EngineInit /\ observing = "playing" /\ NothingObserved
    /\ CollaboratorsIdle
PlayingSpec == PlayingInit /\ [][Next]_vars

\* ----------------------------------------------------- auto-advance scenario
\* The playlists of 1..MaxLen items.
Playlists(n) ==
    UNION { [1..len -> Items] : len \in 1..n }

\* A new engine whose caller has added n >= 1 tracks and has received the
\* PlaylistUpdated of the debounce branch: Stopped, nothing loaded yet.
AutoAdvanceInit ==
    /\ playlist \in Playlists(MaxLen)
    /\ current_track_id = None
    /\ current_track_index = None
    /\ current_track_path = None
    /\ sink = None
    /\ stream = FALSE
    /\ state = "Stopped"
    /\ debounce_timer = None
    /\ cancelled = FALSE
    /\ commands_closed = FALSE
    /\ events = << EvPlaylistUpdated([k \in 1..Len(playlist) |-> playlist[k].id]) >>
    /\ pc = "running"
    /\ quiet = DebounceDuration
    /\ burst = "notified"
    /\ last = "Debounce"
    /\ observing = "stream"
    /\ NothingObserved
    /\ CollaboratorsIdle

\* The one Play of the scenario, every file loadable and the device there.
AutoPlay ==
    /\ CommandReady
    /\ stream_log = << >>
    /\ Commit(play(Self, "ok"), "Play", FALSE, FALSE)

\* The progress tick, every file loadable and the device there.
AutoTick ==
    /\ pc = "running"
    /\ Commit(IF state # "Stopped" THEN send_progress(Self, "ok") ELSE Self,
              "Tick", FALSE, FALSE)

AutoAdvanceNext ==
    \/ AutoPlay
    \/ AutoTick
    \/ FftBranch
    \/ Playback

\* Play is sent, the ticks keep coming and the audio thread keeps playing.
AutoAdvanceSpec ==
    /\ AutoAdvanceInit
    /\ [][AutoAdvanceNext]_vars
    /\ WF_vars(AutoPlay)
    /\ WF_vars(AutoTick)
    /\ WF_vars(Playback)


\* ------------------------------------------------- the collaborators at work
\* The variables of the engine, and those of each collaborator.
engine == << playlist, current_track_id, current_track_index,
             current_track_path, sink, stream, state, debounce_timer,
             cancelled, commands_closed, events, pc, quiet, burst, last >>
searching == << search_db, latest_add, search_calls >>
sizing == << cores, batch_size >>
analysing == << media_files, media_analysis, batcher >>
describing == << file, file_description, crc_calls >>

\* A caller adds a term and commits.
AddTerm(type, id, name) ==
    /\ search_calls < MaxSearchCalls
    /\ search_db' = add_term(search_db, type, id, name)
    /\ latest_add' = [latest_add EXCEPT ![<< type, id >>] = Some(name)]
    /\ search_calls' = search_calls + 1
    /\ UNCHANGED << engine, observer, sizing, analysing, describing >>

\* A caller removes a term and commits.
RemoveTerm(type, id) ==
    /\ search_calls < MaxSearchCalls
    /\ search_db' = remove_term(search_db, type, id)
    /\ latest_add' = [latest_add EXCEPT ![<< type, id >>] = None]
    /\ search_calls' = search_calls + 1
    /\ UNCHANGED << engine, observer, sizing, analysing, describing >>

SearchNext ==
    \/ \E type \in CollectionType, id \in TermIds, name \in TermNames :
          AddTerm(type, id, name)
    \/ \E type \in CollectionType, id \in TermIds : RemoveTerm(type, id)

\* The callers of a new index.
SearchSpec == Init /\ [][SearchNext]_vars


\* A machine of 1..MaxCores cores that has not been asked for a batch size.
BatchSizeInit ==
    /\ EngineInit /\ observing = "nothing" /\ NothingObserved
    /\ SearchIdle /\ AnalysisIdle /\ CrcIdle
    /\ cores \in 1..MaxCores
    /\ batch_size = None

\* analyse_audio_library_request asks for the batch size.
DetermineBatchSize ==
    /\ batch_size' = Some(determine_batch_size(cores))
    /\ UNCHANGED << engine, observer, searching, cores, analysing, describing >>

BatchSizeNext == DetermineBatchSize

BatchSizeSpec == BatchSizeInit /\ [][BatchSizeNext]_vars


\* A catalog, an analysis table with at most one row per file id (rows of
\* files no longer cataloged included), and a run about to start with the
\* batch size of the machine.
AnalysisInit ==
    /\ EngineInit /\ observing = "nothing" /\ NothingObserved
    /\ SearchIdle /\ CrcIdle
    /\ cores \in 1..MaxRunCores
    /\ batch_size = Some(determine_batch_size(cores))
    /\ media_files \in SUBSET FileIds
    /\ media_analysis \in { Ascending(ids) : ids \in SUBSET FileIds }
    /\ batcher = BatcherNew

\* A run whose total_processed starts at 0.
StartAnalysis_from_zero(outcome) ==
    /\ batcher.pc = "new"
    /\ batcher' =
         CASE outcome = "count_err" -> [batcher EXCEPT !.pc = "failed"]
           [] outcome = "query_err" -> [batcher EXCEPT !.pc = "panicked"]
           [] OTHER ->
                [batcher EXCEPT !.pc = "loop",
                                !.total_tasks = Cardinality(media_files),
                                !.existed_tasks = media_analysis,
                                !.after = None,
                                !.total_processed = 0]
    /\ UNCHANGED << engine, observer, searching, sizing,
                    media_files, media_analysis, describing >>

\* analysis_audio_library up to its loop: the count of the catalog, the ids
\* already analysed, the cursor and total_processed.
StartAnalysis(outcome) ==
    /\ batcher.pc = "new"
    /\ batcher' =
         CASE outcome = "count_err" -> [batcher EXCEPT !.pc = "failed"]
           [] outcome = "query_err" -> [batcher EXCEPT !.pc = "panicked"]
           [] OTHER ->
                [batcher EXCEPT !.pc = "loop",
                                !.total_tasks = Cardinality(media_files),
                                !.existed_tasks = media_analysis,
                                !.after = None,
                                !.total_processed = Len(media_analysis)]
    /\ UNCHANGED << engine, observer, searching, sizing,
                    media_files, media_analysis, describing >>

\* One iteration of the loop of analysis_audio_library.
AnalyseBatch(outcome) ==
    /\ batcher.pc = "loop"
    /\ LET files == cursor_first(media_files, batcher.existed_tasks,
                                 batcher.after, Unwrap(batch_size))
       IN  IF outcome = "fetch_err"
           THEN /\ batcher' = [batcher EXCEPT !.pc = "failed"]
                /\ UNCHANGED media_analysis
           ELSE IF files = << >>
           THEN /\ batcher' = [batcher EXCEPT
                                 !.pc = "done",
                                 !.returned = Some(batcher.total_tasks)]
                /\ UNCHANGED media_analysis
           ELSE IF batcher.cancelled
           THEN /\ batcher' = [batcher EXCEPT
                                 !.pc = "cancelled",
                                 !.returned = Some(batcher.total_tasks)]
                /\ UNCHANGED media_analysis
           ELSE IF outcome = "txn_err"
           THEN /\ batcher' = [batcher EXCEPT
                                 !.pc = "failed",
                                 !.batches = Append(@, files)]
                /\ UNCHANGED media_analysis
           ELSE /\ media_analysis' = media_analysis \o files
                /\ batcher' = [batcher EXCEPT
                                 !.total_processed = @ + Len(files),
                                 !.callbacks =
                                     Append(@, << batcher.total_processed + Len(files),
                                                  batcher.total_tasks >>),
                                 !.batches = Append(@, files),
                                 !.after = Some(files[Len(files)])]
    /\ UNCHANGED << engine, observer, searching, sizing, media_files, describing >>

\* The cancellation token of the request fires.
CancelAnalysis ==
    /\ batcher.pc \in {"new", "loop"}
    /\ ~batcher.cancelled
    /\ batcher' = [batcher EXCEPT !.cancelled = TRUE]
    /\ UNCHANGED << engine, observer, searching, sizing,
                    media_files, media_analysis, describing >>

AnalysisNext ==
    \/ \E outcome \in StartOutcomes : StartAnalysis(outcome)
    \/ \E outcome \in BatchOutcomes : AnalyseBatch(outcome)
    \/ CancelAnalysis

\* The run is polled until it returns.
AnalysisSpec ==
    /\ AnalysisInit
    /\ [][AnalysisNext]_vars
    /\ WF_vars(\E outcome \in StartOutcomes : StartAnalysis(outcome))
    /\ WF_vars(\E outcome \in BatchOutcomes : AnalyseBatch(outcome))


\* A description of a file, there or not, whose hash has not been asked for.
CrcInit ==
    /\ EngineInit /\ observing = "nothing" /\ NothingObserved
    /\ SearchIdle /\ BatchSizeIdle /\ AnalysisIdle
    /\ file \in {None} \cup { Some(body) : body \in FileBodies }
    /\ file_description = [file_hash |-> None]
    /\ crc_calls = << >>

\* A caller asks the description for its hash.
GetCrc(outcome) ==
    /\ Len(crc_calls) < MaxCrcCalls
    /\ LET call == get_crc(file_description, file, outcome)
       IN  /\ file_description' = call.self
           /\ crc_calls' = Append(crc_calls, [result |-> call.result,
                                              opened |-> call.opened])
    /\ UNCHANGED << engine, observer, searching, sizing, analysing, file >>

\* The file is written, replaced, removed or created.
ChangeFile(on_disk) ==
    /\ on_disk # file
    /\ file' = on_disk
    /\ UNCHANGED << engine, observer, searching, sizing, analysing,
                    file_description, crc_calls >>

CrcNext ==
    \/ \E outcome \in CrcOutcomes : GetCrc(outcome)
    \/ \E on_disk \in {None} \cup { Some(body) : body \in FileBodies } :
          ChangeFile(on_disk)

CrcSpec == CrcInit /\ [][CrcNext]_vars


\* ----------------------------------------------------------------- claims
\* The ids of the playlist, in order.
IdsOf(list) == [k \in 1..Len(list) |-> list[k].id]

\* C1: at every handler boundary of the loop, a cursor that is set is an
\* index of the playlist: 0 <= cursor < |playlist|.
C1_CursorInBounds ==
    pc = "running" =>
        (IsSome(current_track_index) =>
            Unwrap(current_track_index) < Len(playlist))

\* C2: in every reachable state, Playing implies a sink and Stopped implies
\* no sink.
C2_StateMatchesSink ==
    /\ state = "Playing" => IsSome(sink)
    /\ state = "Stopped" => ~IsSome(sink)

\* Where Vec::remove(old) followed by Vec::insert(new, item) puts the item
\* that was at index p.
PosAfterMove(p, old, new) ==
    IF p = old THEN new
    ELSE LET q == IF old < p THEN p - 1 ELSE p
         IN  IF new <= q THEN q + 1 ELSE q

C4_OneUpdatePerQuietBurst ==
    [][ /\ DebounceBranch => (quiet >= DebounceDuration /\ burst = "open")
        /\ (pc = "running" /\ burst = "open" /\ quiet >= DebounceDuration)
              => quiet' # 0
      ]_vars

\* C5: a PlaylistUpdated carries the ids of the playlist as it is when the
\* event is sent, in order and with duplicates.
C5_UpdateCarriesPlaylist ==
    \A k \in DOMAIN events :
        events[k].type = "PlaylistUpdated" => events[k].ids = IdsOf(playlist)

\* C5 witness: the debounce branch has just sent the ids of a playlist that
\* holds the same id twice.
C5_Witness ==
    /\ last = "Debounce"
    /\ events = << EvPlaylistUpdated(<< 10, 10 >>) >>
    /\ Len(playlist) = 2

\* C6: no sequence of commands and ticks makes the loop panic.
C6_NeverPanics == pc # "panicked"

\* C7 as claimed: once the token is cancelled the engine sends no event.
C7_NoEventAfterCancel ==
    [][cancelled => (events' = events \/ events' = << >>)]_vars

\* C7 as amended: once the loop has exited the engine sends no event, and
\* what it had sent stays sent.
C7_NoEventAfterExit ==
    [][pc = "exited" => (events' = events /\ pc' = "exited")]_vars

\* C7 witness: the loop has exited on cancellation and its Stop semantics
\* sent Stopped after the token fired.
C7_Witness ==
    /\ pc = "exited"
    /\ cancelled
    /\ events = << EvStopped >>

\* C8: with the command channel closed and the token not cancelled the loop
\* terminates (unless the token is cancelled after all).
C8_ClosedChannelTerminates ==
    (commands_closed /\ ~cancelled) ~> (~Alive \/ cancelled)

\* C9: once the token is cancelled, the next iteration that does anything
\* (sends an event, touches playlist, cursor, state or the debounce timer)
\* is the one that stops and exits.
C9_CancelExitsNext ==
    [][ ( /\ cancelled
          /\ pc = "running"
          /\ \/ (events' # events /\ events' # << >>)
             \/ playlist' # playlist
             \/ current_track_index' # current_track_index
             \/ state' # state
             \/ (IsSome(debounce_timer) /\ ~IsSome(debounce_timer')) )
        => pc' = "exited"
      ]_vars

\* C10: when the loop has exited because of cancellation the state is
\* Stopped and no sink is held.
C10_CancelledExitIsStopped ==
    pc = "exited" => (state = "Stopped" /\ ~IsSome(sink))

\* C10 witness: the command branch found the token cancelled while a track
\* was loaded, stopped the sink and left the loop.
C10_Witness ==
    /\ pc = "exited"
    /\ last = "CommandCancelled"
    /\ events = << EvStopped >>
    /\ IsSome(current_track_index)

\* C11 as claimed: the event a ClearPlaylist sends is Stopped, and the next
\* event the engine sends after it, whatever is handled in between, is
\* PlaylistUpdated with an empty id list.
C11_StoppedThenEmptyUpdate ==
    [][ /\ (last' = "ClearPlaylist" /\ IsSome(after_clear'))
              => (events' # << >> /\ events'[1] = EvStopped)
        /\ ( /\ IsSome(after_clear)
             /\ ~Unwrap(after_clear).updated
             /\ ~Unwrap(after_clear).events
             /\ \/ ~IsSome(after_clear')
                \/ Unwrap(after_clear').events
                \/ Unwrap(after_clear').updated )
           => events'[1] = EvPlaylistUpdated(<< >>)
      ]_vars

\* C11 as amended: the event a ClearPlaylist sends is Stopped, and as long as
\* no command has been handled since, the engine sends nothing but
\* RealtimeFFT events until the debounce branch sends PlaylistUpdated with an
\* empty id list.
C11_StoppedThenEmptyUpdateIfNoCommand ==
    [][ /\ (last' = "ClearPlaylist" /\ IsSome(after_clear'))
              => (events' # << >> /\ events'[1] = EvStopped)
        /\ ( /\ IsSome(after_clear)
             /\ ~Unwrap(after_clear).updated
             /\ ~Unwrap(after_clear).commands
             /\ after_clear' # after_clear
             /\ last' \notin CommandSteps )
           => /\ IsSome(after_clear')
              /\ \/ /\ events' = << EvRealtimeFFT >>
                    /\ ~Unwrap(after_clear').updated
                 \/ /\ events' = << EvPlaylistUpdated(<< >>) >>
                    /\ Unwrap(after_clear').updated
      ]_vars

\* C11 witness: the debounce branch has just sent PlaylistUpdated([]) as the
\* first event after the Stopped of a ClearPlaylist that dropped a loaded
\* track, no command and no FFT snapshot having come in between.
C11_Witness ==
    /\ after_clear = Some([events |-> FALSE, commands |-> FALSE, updated |-> TRUE])
    /\ last = "Debounce"
    /\ events = << EvPlaylistUpdated(<< >>) >>
    /\ IsSome(current_track_id)

\* a is b or the beginning of b.
IsPrefix(a, b) ==
    /\ Len(a) <= Len(b)
    /\ \A k \in 1..Len(a) : a[k] = b[k]

\* Playing and EndOfTrack for each index of the list in turn, then
\* EndOfPlaylist.
PlayThrough(list) ==
    [k \in 1..(2 * Len(list) + 1) |->
        IF k = 2 * Len(list) + 1 THEN EvEndOfPlaylist
        ELSE LET i == (k - 1) \div 2
             IN  IF k % 2 = 1
                 THEN EvPlaying(list[i + 1].id, i, list[i + 1].path, 0)
                 ELSE EvEndOfTrack(list[i + 1].id, i, list[i + 1].path)]

\* C12 as claimed: with n >= 1 loadable tracks, Stopped, and Play as the only
\* command, the events other than Progress and RealtimeFFT are at any moment
\* the beginning of: Playing(i), EndOfTrack(i) for i = 0..n-1, EndOfPlaylist;
\* and in the end they are all of it, with the state Stopped for good.
C12_AutoAdvanceOrder ==
    /\ [] IsPrefix(stream_log, PlayThrough(playlist))
    /\ <>[] (stream_log = PlayThrough(playlist) /\ state = "Stopped")

\* C12 as amended: the same, with Playing for index 0 sent twice: once by the
\* Load(0) that Play performs and once by the Play that follows it.
C12_AutoAdvanceOrderAfterPlay ==
    /\ [] IsPrefix(stream_log, << PlayThrough(playlist)[1] >> \o PlayThrough(playlist))
    /\ <>[] ( /\ stream_log = << PlayThrough(playlist)[1] >> \o PlayThrough(playlist)
              /\ state = "Stopped" )

\* C12 witness: a playlist of two tracks has been played through to
\* EndOfPlaylist and the engine is Stopped.
C12_Witness ==
    /\ Len(playlist) = 2
    /\ Len(stream_log) = 6
    /\ stream_log[6] = EvEndOfPlaylist
    /\ stream_log[5].type = "EndOfTrack" /\ stream_log[5].index = 1
    /\ state = "Stopped"
    /\ last = "Tick"

\* C13 as claimed: a Progress event that follows a Progress event with the
\* same (id, index), no Seek having repositioned the sink in between, carries
\* a position that is not smaller - also when the track was loaded again in
\* between.
C13_ProgressNonDecreasing ==
    [][ \A k \in DOMAIN events' :
          ( /\ events'[k].type = "Progress"
            /\ IsSome(last_progress)
            /\ events'[k].id = Unwrap(last_progress).id
            /\ events'[k].index = Unwrap(last_progress).index )
          => events'[k].position >= Unwrap(last_progress).position
      ]_vars

\* C13 as amended: a Progress event that follows a Progress event with the
\* same (id, index), with no Seek having repositioned the sink and no load
\* having installed a new sink in between, carries a position that is not
\* smaller; and the position of the sink goes back only by a Seek or by a
\* load that installs a new sink at position 0.
C13_ProgressNonDecreasingPerSink ==
    [][ /\ \A k \in DOMAIN events' :
              ( /\ events'[k].type = "Progress"
                /\ IsSome(last_progress)
                /\ ~Unwrap(last_progress).reloaded
                /\ events'[k].id = Unwrap(last_progress).id
                /\ events'[k].index = Unwrap(last_progress).index )
              => events'[k].position >= Unwrap(last_progress).position
        /\ ( /\ IsSome(sink) /\ IsSome(sink')
             /\ Unwrap(sink').pos < Unwrap(sink).pos )
           => (last' = "Seek" \/ Unwrap(sink') = NewSink)
      ]_vars

\* C13 witness: the sink of track 10 has played on from position 0 and a tick
\* has sent Progress for (10, 0) at the largest position.
C13_Witness ==
    /\ last = "Tick"
    /\ events = << EvProgress(10, 0, "a.flac", MaxPos) >>
    /\ last_progress = Some([id |-> 10, index |-> 0, position |-> MaxPos,
                             reloaded |-> FALSE])
    /\ Unwrap(sink).pos = MaxPos

\* C14 as claimed: every Progress or Paused event carries an (id, index) that
\* a Playing event has carried since the sink in use was loaded.
C14_PlayingPrecedesSamePair ==
    \A k \in DOMAIN events :
        events[k].type \in {"Progress", "Paused"}
        => [id |-> events[k].id, index |-> events[k].index] \in announced

\* C14 as amended: every Progress or Paused event carries the id that a
\* Playing event has carried since the sink in use was loaded; the index it
\* carries is the cursor's, which a MovePlayListItem or a failed Next,
\* Previous or Switch may have changed since that Playing.
C14_PlayingPrecedesSameId ==
    \A k \in DOMAIN events :
        events[k].type \in {"Progress", "Paused"}
        => \E p \in announced : p.id = events[k].id

\* C14 witness: track 10 was loaded at index 0, moved to index 1, and Pause
\* has sent Paused for (10, 1) after the one Playing for (10, 0).
C14_Witness ==
    /\ last = "Pause"
    /\ events = << EvPaused(10, 1, "a.flac", 0) >>
    /\ announced = { [id |-> 10, index |-> 0] }
    /\ playlist = << [id |-> 20, path |-> "b.flac"], [id |-> 10, path |-> "a.flac"] >>

\* C15: an Error event of a failed load comes with the state Stopped and with
\* neither a sink nor an output stream held.
C15_LoadFailureReleases ==
    \A k \in DOMAIN events :
        events[k].type = "Error"
        => (state = "Stopped" /\ ~IsSome(sink) /\ ~stream)

\* C16: a Next command with the cursor set and cursor + 1 < |playlist| does
\* what Load(cursor + 1) does; any other Next command sends EndOfPlaylist
\* and leaves the state Stopped.
C16_NextLoadsOrEnds ==
    [][ NextTrack =>
          IF /\ IsSome(current_track_index)
             /\ Unwrap(current_track_index) + 1 < Len(playlist)
          THEN \E outcome \in LoadOutcomes :
                  Commit(load(Self, Unwrap(current_track_index) + 1, outcome),
                         "Next", FALSE, FALSE)
          ELSE events' = << EvEndOfPlaylist >> /\ state' = "Stopped"
      ]_vars

\* C17: a Switch(i) command with i < |playlist| does what Load(i) does; any
\* other Switch(i) sends no event and leaves playlist, cursor, sink and state
\* as they are.
C17_SwitchLoadsOrNothing ==
    [][ \A i \in Indices :
          Switch(i) =>
            IF i < Len(playlist)
            THEN \E outcome \in LoadOutcomes :
                    Commit(load(Self, i, outcome), "Switch", FALSE, FALSE)
            ELSE /\ events' = << >>
                 /\ pc' = pc
                 /\ UNCHANGED << playlist, current_track_id, current_track_index,
                                 current_track_path, sink, stream, state >>
      ]_vars

\* C18: right after a Stop that stopped a sink, after a ClearPlaylist, and
\* after an EndOfPlaylist event the cursor index, id and path are absent.
C18_CursorResetOnStop ==
    ( \/ last = "Stop" /\ events = << EvStopped >>
      \/ last = "ClearPlaylist"
      \/ \E k \in DOMAIN events : events[k] = EvEndOfPlaylist )
    => ( /\ current_track_index = None
         /\ current_track_id = None
         /\ current_track_path = None )

\* C19: a RemoveFromPlaylist(index) with index >= |playlist| and a
\* MovePlayListItem(old, new) with old >= |playlist| or new >= |playlist|
\* send no event and leave playlist, cursor, sink, state and debounce
\* deadline as they are; no burst of mutations is opened.
C19_OutOfRangeChangesNothing ==
    [][ ( /\ last' \in {"RemoveFromPlaylist", "MovePlayListItem"}
          /\ ~ ( /\ events' = << >>
                 /\ pc' = pc
                 /\ UNCHANGED << playlist, current_track_id, current_track_index,
                                 current_track_path, sink, stream, state,
                                 debounce_timer, quiet, burst >> ) )
        => /\ \A i \in Indices :
                 i >= Len(playlist) => ~RemoveFromPlaylist(i)
           /\ \A old \in Indices, new \in Indices :
                 (old >= Len(playlist) \/ new >= Len(playlist))
                 => ~MovePlayListItem(old, new)
      ]_vars

\* C19 witness: a full playlist whose PlaylistUpdated has been sent, a track
\* loaded, and a RemoveFromPlaylist beyond its end handled last: the playlist
\* is still full and no deadline is set.
C19_Witness ==
    /\ last = "RemoveFromPlaylist"
    /\ Len(playlist) = MaxLen
    /\ debounce_timer = None
    /\ burst = "notified"
    /\ events = << >>
    /\ IsSome(sink)
    /\ pc = "running"

\* C20: after a Stop command and after a ClearPlaylist command the engine
\* holds neither a sink nor an output stream.
C20_StopReleasesDevice ==
    last \in {"Stop", "ClearPlaylist"} => (~IsSome(sink) /\ ~stream)

\* The documents of the index stored for a key.
DocsOf(docs, type, id) ==
    SelectSeq(docs, LAMBDA d : d.type = CollectionTypeToI64(type) /\ d.id = id)

\* C21: add_term is an upsert by (kind, id): for every key whose latest call
\* was an add_term, the index holds exactly one document of that key, and it
\* carries the name of that latest add - so no add for another key has
\* deleted it.
C21_UpsertByKey ==
    \A key \in TermKeys :
        IsSome(latest_add[key]) =>
            LET stored == DocsOf(search_db, key[1], key[2])
            IN  /\ Len(stored) = 1
                /\ stored[1].name = Unwrap(latest_add[key])

\* C22: remove_term(kind, id) removes what add_term(kind, id, name) stored:
\* for every key whose latest call was a remove_term (or that was never
\* added), no search by a name or by its latinization returns the id for
\* the kind.
C22_RemoveDeletesAdded ==
    \A key \in TermKeys :
        latest_add[key] = None =>
            \A name \in TermNames :
                /\ key[2] \notin search_for(search_db, name)[key[1]]
                /\ key[2] \notin search_for(search_db, deunicode(name))[key[1]]

\* C23: the batch size determine_batch_size returns is
\* clamp(floor(2 * cores / 3), 1, 1000), for every number of cores >= 1.
C23_BatchSizeIsClampedTwoThirds ==
    IsSome(batch_size) =>
        Unwrap(batch_size) =
            Min(Max((2 * cores) \div 3, min_batch_size), max_batch_size)

\* The batches of a run, one after the other.
RECURSIVE Flatten(_)
Flatten(seqs) ==
    IF seqs = << >> THEN << >> ELSE Head(seqs) \o Flatten(Tail(seqs))

\* How a run of the batcher can have ended.
BatcherEnded == {"done", "cancelled", "failed", "panicked"}

\* No batch holds a file that was analysed before the run; and a run that
\* was neither cancelled nor hit an error has analysed the cataloged files
\* not analysed before, each once and in ascending id order, in batches of
\* exactly B files except possibly the last, and has inserted one row per
\* file.
BatchesOfRun ==
    LET analysed == Flatten(batcher.batches)
        B == Unwrap(batch_size)
        n == Len(batcher.batches)
    IN  /\ Range(analysed) \cap Range(batcher.existed_tasks) = {}
        /\ batcher.pc = "done" =>
             /\ analysed = Ascending(media_files \ Range(batcher.existed_tasks))
             /\ \A k \in 1..n :
                   /\ k < n => Len(batcher.batches[k]) = B
                   /\ Len(batcher.batches[k]) \in 1..B
             /\ media_analysis = batcher.existed_tasks \o analysed

\* C24: an uncancelled, error-free run of analysis_audio_library with batch
\* size B processes every cataloged file whose id is not in the analysis
\* table exactly once, in ascending id order, in consecutive batches of
\* exactly B files except possibly the last, inserts one row per processed
\* file, never analyses an already analysed file, and terminates.
C24_BatchesCoverUnanalysed ==
    /\ []BatchesOfRun
    /\ <>(batcher.pc \in BatcherEnded)

\* A run over a catalog with analysed files has ended after a full batch
\* followed by a shorter one.
C24_Witness ==
    /\ batcher.pc = "done"
    /\ ~batcher.cancelled
    /\ Range(batcher.existed_tasks) \cap media_files # {}
    /\ Len(batcher.batches) = 2
    /\ Len(batcher.batches[1]) = Unwrap(batch_size)
    /\ Len(batcher.batches[2]) < Unwrap(batch_size)

\* What every run keeps: the total of every callback and the value returned
\* are the number of cataloged files, the processed count does not decrease
\* from one callback to the next, and it does not exceed the total when every
\* row of the analysis table at the start belongs to a cataloged file.
TotalsOfRun ==
    LET cb == batcher.callbacks
    IN  /\ \A k \in 1..Len(cb) : cb[k][2] = Cardinality(media_files)
        /\ IsSome(batcher.returned) =>
              Unwrap(batcher.returned) = Cardinality(media_files)
        /\ \A k \in 1..(Len(cb) - 1) : cb[k][1] <= cb[k + 1][1]
        /\ Range(batcher.existed_tasks) \subseteq media_files =>
              \A k \in 1..Len(cb) : cb[k][1] <= cb[k][2]

\* C25 as claimed: in every run the total of every callback and the returned
\* value are the number of cataloged files at the start (also when cancelled
\* at a batch boundary); processed is non-decreasing, never exceeds total
\* when every existing analysis row belongs to a cataloged file, and equals
\* total at the last callback of every run that has ended uncancelled.
C25_ProgressTotals ==
    LET cb == batcher.callbacks
    IN  /\ TotalsOfRun
        /\ (batcher.pc \in {"done", "failed"} /\ ~batcher.cancelled /\ cb # << >>) =>
              cb[Len(cb)][1] = cb[Len(cb)][2]

\* C25 amended: processed equals total at the last callback of a run that
\* ended because its cursor was exhausted (not cancelled, no database
\* error), when every row of the analysis table at the start belongs to a
\* cataloged file; the rest as claimed.
C25_ProgressTotalsOfCompletedRun ==
    LET cb == batcher.callbacks
    IN  /\ TotalsOfRun
        /\ (/\ batcher.pc = "done"
            /\ Range(batcher.existed_tasks) \subseteq media_files
            /\ cb # << >>) =>
              cb[Len(cb)][1] = cb[Len(cb)][2]

\* A run over a catalog with analysed files has made two callbacks and
\* ended, and another was cancelled at a batch boundary: here the first.
C25_Witness ==
    /\ batcher.pc = "done"
    /\ batcher.existed_tasks # << >>
    /\ Range(batcher.existed_tasks) \subseteq media_files
    /\ Len(batcher.callbacks) = 2
    /\ batcher.callbacks[1][1] < batcher.callbacks[2][1]
    /\ batcher.callbacks[2][1] = Cardinality(media_files)

\* C26: once get_crc has succeeded the hash stays, and every later get_crc
\* returns it without opening the file, whatever has become of the file; a
\* get_crc that finds no hash opens the file, a successful one stores what
\* it returns, and a failed one leaves file_hash absent.
C26_CrcMemoized ==
    [][/\ IsSome(file_description.file_hash) =>
             file_description' = file_description
       /\ crc_calls' # crc_calls =>
             LET call == crc_calls'[Len(crc_calls')]
             IN  /\ IsSome(file_description.file_hash) =>
                       /\ call.result = file_description.file_hash
                       /\ ~call.opened
                 /\ file_description.file_hash = None =>
                       /\ call.opened
                       /\ file_description'.file_hash = call.result
      ]_vars

\* A first get_crc failed, the second read the file, and the third returned
\* the same string without opening the file, which is gone by then.
C26_Witness ==
    /\ Len(crc_calls) = 3
    /\ crc_calls[1].result = None
    /\ IsSome(crc_calls[2].result) /\ crc_calls[2].opened
    /\ crc_calls[3].result = crc_calls[2].result /\ ~crc_calls[3].opened
    /\ file = None
    /\ file_description.file_hash = crc_calls[2].result

\* C27: every command handler runs to completion: a Play whose Load(0) has
\* failed, and which is therefore about to call itself, eventually returns
\* or, at worst, ends in a panic.
C27_PlayReturns == (pc = "in_play") ~> (pc # "in_play")

\* C28: whenever the cursor is present and in bounds, the cached id and path
\* are those of the playlist item at the cursor.
C28_CachedTrackIsCursorItem ==
    ( /\ pc = "running"
      /\ IsSome(current_track_index)
      /\ Unwrap(current_track_index) < Len(playlist) )
    => /\ IsSome(current_track_id)
       /\ IsSome(current_track_path)
       /\ Unwrap(current_track_id) = playlist[Unwrap(current_track_index) + 1].id
       /\ Unwrap(current_track_path) = playlist[Unwrap(current_track_index) + 1].path

\* What AddToPlaylist and an in-bounds RemoveFromPlaylist leave alone and
\* what they set: cursor, cached id and path, sink, stream and state are
\* kept, no event is sent, and the debounce deadline is DebounceDuration
\* from now.
PlaylistEditFrame ==
    /\ events' = << >>
    /\ pc' = pc
    /\ UNCHANGED << current_track_id, current_track_index, current_track_path,
                    sink, stream, state >>
    /\ debounce_timer' = Some(DebounceDuration)

C30_SinkImpliesTrack ==
    IsSome(sink) =>
        /\ IsSome(current_track_index)
        /\ IsSome(current_track_id)
        /\ IsSome(current_track_path)

\* C30 witness: pause has unwrapped the three fields and sent Paused, after
\* the playlist was edited under the loaded track.
C30_Witness ==
    /\ IsSome(sink)
    /\ last = "Pause"
    /\ events # << >>
    /\ events[1].type = "Paused"
    /\ Len(playlist) = 0

\* C31: whenever a sink exists, the engine state is Paused if and only if
\* the sink is paused; so Playing never goes with a paused sink.
C31_StateAgreesWithSink ==
    IsSome(sink) => (state = "Paused" <=> Unwrap(sink).paused)

\* While the loop runs the deadline is there exactly when a playlist mutation
\* has been handled since the last PlaylistUpdated (or since the start); and
\* the iteration that sent a PlaylistUpdated left no deadline behind.
DeadlineIffUnnotified ==
    /\ Alive => (IsSome(debounce_timer) <=> burst = "open")
    /\ (Alive /\ \E k \in DOMAIN events : events[k].type = "PlaylistUpdated")
          => (debounce_timer = None /\ burst = "notified" /\ last = "Debounce")

\* C32: while the loop is running the debounce deadline is present if and
\* only if a playlist mutation (AddToPlaylist, in-bounds RemoveFromPlaylist,
\* ClearPlaylist, in-bounds MovePlayListItem with old # new) has been handled
\* since the last PlaylistUpdated or since the start; each such mutation sets
\* the deadline to now + 60 ms; a MovePlayListItem with old = new changes
\* neither playlist, cursor nor deadline; and a PlaylistUpdated is not sent
\* before the deadline.
C32_DeadlineTracksMutations ==
    /\ []DeadlineIffUnnotified
    /\ [][ /\ ( /\ last' \in {"AddToPlaylist", "RemoveFromPlaylist",
                               "ClearPlaylist", "MovePlayListItem"}
                /\ debounce_timer' # Some(DebounceDuration) )
              => /\ \A item \in Items : ~AddToPlaylist(item)
                 /\ \A i \in 0..(Len(playlist) - 1) : ~RemoveFromPlaylist(i)
                 /\ ~ClearPlaylist
                 /\ \A old \in 0..(Len(playlist) - 1), new \in 0..(Len(playlist) - 1) :
                       old # new => ~MovePlayListItem(old, new)
           /\ ( /\ last' = "MovePlayListItem"
                /\ ~UNCHANGED << playlist, current_track_index, debounce_timer >> )
              => \A i \in Indices : ~MovePlayListItem(i, i)
           /\ (burst = "open" /\ burst' = "notified")
              => debounce_timer = Some(0)
         ]_vars

\* C32 witness: a MovePlayListItem with old = new has been handled after the
\* PlaylistUpdated of a full playlist: no deadline is set; before that the
\* moves and additions of the burst had set it.
C32_Witness ==
    /\ last = "MovePlayListItem"
    /\ burst = "notified"
    /\ debounce_timer = None
    /\ Len(playlist) = MaxLen
    /\ IsSome(current_track_index)
    /\ pc = "running"

====
